---- MODULE Spec2Model ----
(***************************************************************************)
(* Model of pyxll_jupyter/kernel.py: the notebook-server launcher          *)
(* (launch_jupyter, its watcher thread thread_func, _kill_process and the  *)
(* atexit hook _kill_jupyter_processes) and the cooperative kernel driver  *)
(* (start_kernel and its poll_ioloop callback).                            *)
(*                                                                         *)
(* Spec       : launcher, watcher threads, child processes and teardown.   *)
(* KernelSpec : start_kernel, with the connection directory it resolves,   *)
(*              and the poll callbacks of the host scheduler.              *)
(***************************************************************************)
EXTENDS Integers, Sequences, FiniteSets, TLC

\* ------------------------------------------------------------------ bounds
\* Number of launch_jupyter calls in a run.
MaxLaunches == 2
\* Number of lines the children print in a run, all together.
MaxLines == 3
\* Number of start_kernel calls in a run.
MaxLiveLaunches == 1      \* calls of launch_jupyter followed to their end (LiveSpec)
MaxStarts == 3
\* Number of poll steps in a run.
MaxPolls == 4

Procs == 1..MaxLaunches

\* ------------------------------------------------------------------ lines
\* The kinds of line a child prints, one representative of each.
URL1 == "http://localhost:8888/?token=abc123"
URL2 == "http://127.0.0.1:8889/?token=ff00"
DebugLine == "DEBUG http://localhost:8888/?token=abc123"
PlainLine == "Serving notebooks from local directory"
\* readline() at end of file: b"" decodes and strips to the empty string.
EOFLine == ""
Lines == {PlainLine, DebugLine, URL1, URL2}
\* What url_queue.put(None) places.
None == "None"

\* line.startswith("DEBUG")
startswith_DEBUG(line) == line = DebugLine

\* re.search(<url pattern>, line).group(1), or None when nothing matches.
\* The search is unanchored, so it also finds the URL inside DebugLine.
re_search(line) ==
  CASE line = URL1 -> URL1
    [] line = URL2 -> URL2
    [] line = DebugLine -> URL1
    [] OTHER -> None

VARIABLES
  \* ---- child processes (subprocess.Popen objects and the OS behind them)
  nspawned,               \* number of Popen calls so far; the next child is nspawned + 1
  pstate,                 \* pstate[p]: "unborn", "running", "exited" (by itself), "killed"
  printed,                \* printed[p]: the lines child p has written to its pipe
  nread,                  \* nread[p]: how many of them readline() has returned
  taskkills,              \* taskkills[p]: number of taskkill invocations on p's pid
  killed_at_exit,         \* killed_event[p] as it was when p ended
  \* ---- module state
  all_jupyter_processes,  \* _all_jupyter_processes
  \* ---- launch_jupyter (one call at a time, on the host thread)
  lpc,                    \* position of the launcher: "idle" or a line of launch_jupyter
  result,                 \* result[p]: how the call that spawned p ended
  ret_url,                \* ret_url[p]: the URL returned with p
  timed_out,              \* timed_out[p]: url_queue.get raised queue.Empty
  alive_at_421,           \* alive_at_421[p]: what proc.poll() showed at line 421
  \* ---- per launch: queue, event, watcher thread
  url_queue,              \* url_queue[p]: contents of the queue
  put_log,                \* put_log[p]: every item ever put on the queue
  killed_event,           \* killed_event[p].is_set()
  wpc,                    \* wpc[p]: position of thread_func
  matched_url,            \* matched_url[p]: thread_func's local
  killed_at_403,          \* killed_at_403[p]: killed_event.is_set() as line 403 read it
  \* ---- atexit hook
  tpc,                    \* "off", "loop", "done"
  ti,                     \* index of the for loop of _kill_jupyter_processes
  at_teardown,            \* the registered children when the hook started
  \* ---- kernel driver
  ipython_app,            \* sys._ipython_app: NoApp or the app object
  ipython_kernel_running, \* sys._ipython_kernel_running
  app_initialized,        \* IPKernelApp.initialized()
  exit_now,               \* kernel.shell.exit_now
  pending,                \* poll_ioloop callbacks pending in the host scheduler
  sys_stdout,             \* the stream pair installed as sys.stdout / sys.stderr
  ipy_stdout,             \* the closure's ipy_stdout / ipy_stderr
  n_initialize,           \* calls of ipy.initialize
  n_embed,                \* calls of embed_kernel
  n_start,                \* calls of start_kernel
  n_poll,                 \* poll steps run
  n_err,                  \* poll steps whose body raised
  starts_since_exit,      \* start_kernel calls returned since the kernel last stopped
  last_ret,               \* what the last start_kernel call returned
  last_poll,              \* how the last poll step ended
  body_stdout,            \* the stream pair installed while the last poll step's body ran
  connection_dir,         \* ipy.connection_dir
  \* ---- what start_kernel finds on the machine
  cfg_runtime_dir,        \* the runtime_dir option of [JUPYTER] in pyxll.cfg
  excel_path,             \* what _get_excel_path() returns
  pyxll_dir               \* os.path.dirname(pyxll.__file__)

procvars == <<nspawned, pstate, printed, nread, taskkills, killed_at_exit>>
launchvars == <<lpc, result, ret_url, timed_out, alive_at_421>>
watchvars == <<url_queue, put_log, killed_event, wpc, matched_url, killed_at_403>>
tdvars == <<tpc, ti, at_teardown>>
kernelvars == <<ipython_app, ipython_kernel_running, app_initialized, exit_now,
                pending, sys_stdout, ipy_stdout, n_initialize, n_embed, n_start,
                n_poll, n_err, starts_since_exit, last_ret, last_poll,
                body_stdout, connection_dir, cfg_runtime_dir, excel_path, pyxll_dir>>
vars == <<procvars, all_jupyter_processes, launchvars, watchvars, tdvars, kernelvars>>

\* The app object IPKernelApp.instance() returns, and the two stream pairs.
IPY == "IPKernelApp"
\* sys._ipython_app before any kernel was started (line 45 sets it to False).
NoApp == "False"
HostStreams == "host"
KernelStreams == "ipython"

\* ------------------------------------------------------------------ paths
\* A path: whether it is absolute, and its components.
Path(abs, parts) == [abs |-> abs, parts |-> parts]
\* The empty string (and None): the one falsy value of a path variable.
EmptyPath == Path(FALSE, <<>>)
Cwd == Path(TRUE, <<"C:", "Windows", "System32">>)

\* Jupyter's default runtime directory, and one outside AppData.
AppDataRuntimeDir == Path(TRUE, <<"C:", "Users", "me", "AppData", "Roaming", "jupyter", "runtime">>)
PlainRuntimeDir == Path(TRUE, <<"D:", "jupyter", "runtime">>)
RelativeRuntimeDir == Path(FALSE, <<"jupyter", "runtime">>)
\* Excel installed the usual way, and installed from the Store as a UWP app.
ExcelDesktop == Path(TRUE, <<"C:", "Program Files", "Microsoft Office", "root", "Office16", "EXCEL.EXE">>)
ExcelUWP == Path(TRUE, <<"C:", "Program Files", "WindowsApps", "Microsoft.Office.Desktop", "Office16", "EXCEL.EXE">>)
\* The pyxll package in a Python installed for all users, and in one
\* installed for the current user.
PyxllSystem == Path(TRUE, <<"C:", "Python", "Lib", "site-packages", "pyxll">>)
PyxllPerUser == Path(TRUE, <<"C:", "Users", "me", "AppData", "Local", "Programs", "Python", "Lib", "site-packages", "pyxll">>)

\* cfg.has_option / cfg.get of ("JUPYTER", "runtime_dir")
NoOption == [has |-> FALSE, value |-> EmptyPath]
Option(path) == [has |-> TRUE, value |-> path]
RuntimeDirOptions ==
  {NoOption} \cup {Option(d) : d \in {EmptyPath, AppDataRuntimeDir, PlainRuntimeDir,
                                       RelativeRuntimeDir}}

\* os.path.join(a, b)
os_path_join(a, b) == IF b.abs THEN b ELSE Path(a.abs, a.parts \o b.parts)

\* os.path.abspath(path): the path itself, or the path under the current
\* directory
os_path_abspath(path) == IF path.abs THEN path ELSE os_path_join(Cwd, path)

\* bool(path) of a string
truthy(path) == path # EmptyPath

\* re.split(r"[/\\]+", path), as the set of the components
re_split(path) == {path.parts[i] : i \in 1..Len(path.parts)}

\* _get_connection_dir(app), lines 87-111; app.connection_dir is the default
\* the app was created with.
get_connection_dir ==
  LET configured ==
        IF cfg_runtime_dir.has
        THEN IF ~truthy(os_path_abspath(cfg_runtime_dir.value))
             THEN os_path_join(pyxll_dir, cfg_runtime_dir.value)
             ELSE cfg_runtime_dir.value
        ELSE EmptyPath
      chosen == IF ~truthy(configured) THEN connection_dir ELSE configured
  IN IF "WindowsApps" \in re_split(excel_path) /\ "AppData" \in re_split(chosen)
     THEN os_path_join(pyxll_dir, Path(FALSE, <<".jupyter", "runtime">>))
     ELSE chosen

\* The state of the module once it has been imported.
Imported ==
  /\ nspawned = 0
  /\ pstate = [p \in Procs |-> "unborn"]
  /\ printed = [p \in Procs |-> <<>>]
  /\ nread = [p \in Procs |-> 0]
  /\ taskkills = [p \in Procs |-> 0]
  /\ killed_at_exit = [p \in Procs |-> FALSE]
  /\ all_jupyter_processes = <<>>
  /\ lpc = "idle"
  /\ result = [p \in Procs |-> "none"]
  /\ ret_url = [p \in Procs |-> None]
  /\ timed_out = [p \in Procs |-> FALSE]
  /\ alive_at_421 = [p \in Procs |-> FALSE]
  /\ url_queue = [p \in Procs |-> <<>>]
  /\ put_log = [p \in Procs |-> <<>>]
  /\ killed_event = [p \in Procs |-> FALSE]
  /\ wpc = [p \in Procs |-> "none"]
  /\ matched_url = [p \in Procs |-> None]
  /\ killed_at_403 = [p \in Procs |-> FALSE]
  /\ tpc = "off"
  /\ ti = 1
  /\ at_teardown = {}
  /\ ipython_app = NoApp
  /\ ipython_kernel_running = FALSE
  /\ app_initialized = FALSE
  /\ exit_now = FALSE
  /\ pending = 0
  /\ sys_stdout = HostStreams
  /\ ipy_stdout = HostStreams
  /\ n_initialize = 0
  /\ n_embed = 0
  /\ n_start = 0
  /\ n_poll = 0
  /\ n_err = 0
  /\ starts_since_exit = 0
  /\ last_ret = NoApp
  /\ last_poll = "none"
  /\ body_stdout = "none"

\* A machine with no runtime_dir option, Excel installed the usual way and
\* Jupyter's default runtime directory.
Init ==
  /\ Imported
  /\ connection_dir = AppDataRuntimeDir
  /\ cfg_runtime_dir = NoOption
  /\ excel_path = ExcelDesktop
  /\ pyxll_dir = PyxllSystem

\* Any machine: the option absent, empty, absolute or relative; Excel a
\* desktop or a UWP app; pyxll inside or outside AppData.
KernelInit ==
  /\ Imported
  /\ connection_dir \in {AppDataRuntimeDir, PlainRuntimeDir}
  /\ cfg_runtime_dir \in RuntimeDirOptions
  /\ excel_path \in {ExcelDesktop, ExcelUWP}
  /\ pyxll_dir \in {PyxllSystem, PyxllPerUser}

\* proc.poll() is None
poll_is_None(p) == pstate[p] = "running"

\* list.remove(p)
list_remove(s, p) == SelectSeq(s, LAMBDA x : x # p)

Registered == {all_jupyter_processes[i] : i \in 1..Len(all_jupyter_processes)}

\* --------------------------------------------------------- child processes
\* Lines printed so far by the children 1..n.
RECURSIVE lines_printed(_)
lines_printed(n) == IF n = 0 THEN 0 ELSE Len(printed[n]) + lines_printed(n - 1)

\* The child writes one more line to its stdout pipe.
ChildPrint(p) ==
  /\ pstate[p] = "running"
  /\ lines_printed(MaxLaunches) < MaxLines
  /\ \E line \in Lines : printed' = [printed EXCEPT ![p] = Append(@, line)]
  /\ UNCHANGED <<nspawned, pstate, nread, taskkills, killed_at_exit,
                 all_jupyter_processes, launchvars, watchvars, tdvars, kernelvars>>

\* The child ends by itself.
ChildExit(p) ==
  /\ pstate[p] = "running"
  /\ pstate' = [pstate EXCEPT ![p] = "exited"]
  /\ killed_at_exit' = [killed_at_exit EXCEPT ![p] = killed_event[p]]
  /\ UNCHANGED <<nspawned, printed, nread, taskkills,
                 all_jupyter_processes, launchvars, watchvars, tdvars, kernelvars>>

\* _kill_process without the check of line 441: taskkill whatever poll() says.
kill_process_unchecked(p, ok) ==
  /\ taskkills' = [taskkills EXCEPT ![p] = @ + 1]
  /\ IF ok /\ poll_is_None(p)
     THEN /\ pstate' = [pstate EXCEPT ![p] = "killed"]
          /\ killed_at_exit' = [killed_at_exit EXCEPT ![p] = killed_event[p]]
     ELSE UNCHANGED <<pstate, killed_at_exit>>

\* _kill_process(p): nothing for a child that has ended; otherwise one taskkill,
\* which ends the child (ok) or fails and is only logged.
kill_process(p, ok) ==
  IF ~poll_is_None(p)
  THEN UNCHANGED <<pstate, taskkills, killed_at_exit>>
  ELSE /\ taskkills' = [taskkills EXCEPT ![p] = @ + 1]
       /\ IF ok
          THEN /\ pstate' = [pstate EXCEPT ![p] = "killed"]
               /\ killed_at_exit' = [killed_at_exit EXCEPT ![p] = killed_event[p]]
          ELSE UNCHANGED <<pstate, killed_at_exit>>

\* ---------------------------------------------------------- launch_jupyter
\* The child of the call in progress.
cur == nspawned

\* Lines 369-377: subprocess.Popen starts the child.
Popen ==
  /\ lpc = "idle"
  /\ tpc = "off"
  /\ nspawned < MaxLaunches
  /\ nspawned' = nspawned + 1
  /\ pstate' = [pstate EXCEPT ![nspawned + 1] = "running"]
  /\ lpc' = "L379"
  /\ UNCHANGED <<printed, nread, taskkills, killed_at_exit, all_jupyter_processes,
                 result, ret_url, timed_out, alive_at_421,
                 watchvars, tdvars, kernelvars>>

\* launch_register without the start check of lines 379-380: the child is
\* registered and watched whether or not it has exited.
launch_register_unchecked ==
  /\ lpc = "L379"
  /\ all_jupyter_processes' = Append(all_jupyter_processes, cur)
  /\ wpc' = [wpc EXCEPT ![cur] = "L390"]
  /\ lpc' = "L415"
  /\ UNCHANGED <<procvars, result, ret_url, timed_out, alive_at_421,
                 url_queue, put_log, killed_event, matched_url, killed_at_403,
                 tdvars, kernelvars>>

\* launch_register without line 383: the child is not appended to the list.
launch_register_not_appended ==
  /\ lpc = "L379"
  /\ IF ~poll_is_None(cur)
     THEN /\ result' = [result EXCEPT ![cur] = "start_error"]
          /\ lpc' = "idle"
          /\ UNCHANGED wpc
     ELSE /\ wpc' = [wpc EXCEPT ![cur] = "L390"]
          /\ lpc' = "L415"
          /\ UNCHANGED result
  /\ UNCHANGED <<procvars, all_jupyter_processes, ret_url, timed_out, alive_at_421,
                 url_queue, put_log, killed_event, matched_url, killed_at_403,
                 tdvars, kernelvars>>

\* Lines 379-411: the start check; then the child is registered and the
\* watcher thread started with a fresh queue and event.
launch_register ==
  /\ lpc = "L379"
  /\ IF ~poll_is_None(cur)
     THEN /\ result' = [result EXCEPT ![cur] = "start_error"]
          /\ lpc' = "idle"
          /\ UNCHANGED <<all_jupyter_processes, wpc>>
     ELSE /\ all_jupyter_processes' = Append(all_jupyter_processes, cur)
          /\ wpc' = [wpc EXCEPT ![cur] = "L390"]
          /\ lpc' = "L415"
          /\ UNCHANGED result
  /\ UNCHANGED <<procvars, ret_url, timed_out, alive_at_421,
                 url_queue, put_log, killed_event, matched_url, killed_at_403,
                 tdvars, kernelvars>>

\* Lines 414-420 and 436: url_queue.get(timeout): the item at the head of the
\* queue, or queue.Empty once the wait has run out on an empty queue. A URL is
\* returned with the child; None goes on to the cleanup.
launch_get ==
  /\ lpc = "L415"
  /\ LET empty == url_queue[cur] = <<>>
         url == IF empty THEN None ELSE Head(url_queue[cur])
     IN /\ url_queue' = [url_queue EXCEPT ![cur] = IF empty THEN @ ELSE Tail(@)]
        /\ timed_out' = [timed_out EXCEPT ![cur] = empty]
        /\ IF url = None
           THEN /\ lpc' = "L421"
                /\ UNCHANGED <<result, ret_url>>
           ELSE /\ lpc' = "idle"
                /\ result' = [result EXCEPT ![cur] = "returned"]
                /\ ret_url' = [ret_url EXCEPT ![cur] = url]
  /\ UNCHANGED <<procvars, all_jupyter_processes, alive_at_421,
                 put_log, killed_event, wpc, matched_url, killed_at_403,
                 tdvars, kernelvars>>

\* launch_check_alive without the test of line 421: the kill and the removal
\* follow also for a child that has exited.
launch_check_alive_always_kill ==
  /\ lpc = "L421"
  /\ alive_at_421' = [alive_at_421 EXCEPT ![cur] = poll_is_None(cur)]
  /\ lpc' = "L423"
  /\ UNCHANGED <<procvars, all_jupyter_processes, result, ret_url, timed_out,
                 watchvars, tdvars, kernelvars>>

\* Line 421: if proc.poll() is None
launch_check_alive ==
  /\ lpc = "L421"
  /\ alive_at_421' = [alive_at_421 EXCEPT ![cur] = poll_is_None(cur)]
  /\ lpc' = IF poll_is_None(cur) THEN "L423" ELSE "L427"
  /\ UNCHANGED <<procvars, all_jupyter_processes, result, ret_url, timed_out,
                 watchvars, tdvars, kernelvars>>

\* Line 423: killed_event.set()
launch_set_killed ==
  /\ lpc = "L423"
  /\ killed_event' = [killed_event EXCEPT ![cur] = TRUE]
  /\ lpc' = "L424"
  /\ UNCHANGED <<procvars, all_jupyter_processes, result, ret_url, timed_out,
                 alive_at_421, url_queue, put_log, wpc, matched_url, killed_at_403,
                 tdvars, kernelvars>>

\* launch_kill without line 425: the child stays in the list.
launch_kill_not_removed ==
  /\ lpc = "L424"
  /\ \E ok \in BOOLEAN : kill_process(cur, ok)
  /\ lpc' = "L427"
  /\ UNCHANGED <<nspawned, printed, nread, all_jupyter_processes, result, ret_url,
                 timed_out, alive_at_421, watchvars, tdvars, kernelvars>>

\* Lines 424-425: _kill_process(proc); _all_jupyter_processes.remove(proc)
launch_kill ==
  /\ lpc = "L424"
  /\ \E ok \in BOOLEAN : kill_process(cur, ok)
  /\ all_jupyter_processes' = list_remove(all_jupyter_processes, cur)
  /\ lpc' = "L427"
  /\ UNCHANGED <<nspawned, printed, nread, result, ret_url, timed_out,
                 alive_at_421, watchvars, tdvars, kernelvars>>

\* launch_raise with thread.join() without a timeout: the launcher goes on
\* only once the watcher thread has finished.
launch_raise_join_forever ==
  /\ lpc = "L427"
  /\ wpc[cur] = "done"
  /\ result' = [result EXCEPT ![cur] = "timeout_error"]
  /\ lpc' = "idle"
  /\ UNCHANGED <<procvars, all_jupyter_processes, ret_url, timed_out,
                 alive_at_421, watchvars, tdvars, kernelvars>>

\* Lines 427-433: the join of at most one second ends whether or not the
\* watcher has finished; then RuntimeError is raised.
launch_raise ==
  /\ lpc = "L427"
  /\ result' = [result EXCEPT ![cur] = "timeout_error"]
  /\ lpc' = "idle"
  /\ UNCHANGED <<procvars, all_jupyter_processes, ret_url, timed_out,
                 alive_at_421, watchvars, tdvars, kernelvars>>

\* ------------------------------------------------------------- thread_func
\* url_queue.put(item)
queue_put(p, item) ==
  /\ url_queue' = [url_queue EXCEPT ![p] = Append(@, item)]
  /\ put_log' = [put_log EXCEPT ![p] = Append(@, item)]

\* Line 390: while proc.poll() is None
thread_poll(p) ==
  /\ wpc[p] = "L390"
  /\ wpc' = [wpc EXCEPT ![p] = IF poll_is_None(p) THEN "L391" ELSE "L403"]
  /\ UNCHANGED <<procvars, all_jupyter_processes, launchvars,
                 url_queue, put_log, killed_event, matched_url, killed_at_403,
                 tdvars, kernelvars>>

\* thread_handle_line without the test of line 396: every matching line is put.
thread_handle_line_rematched(p, line) ==
  IF ~startswith_DEBUG(line) /\ re_search(line) # None
  THEN /\ matched_url' = [matched_url EXCEPT ![p] = re_search(line)]
       /\ queue_put(p, re_search(line))
  ELSE UNCHANGED <<matched_url, url_queue, put_log>>

\* What lines 392-401 do with a line: skip a DEBUG line; match the others
\* until a URL has been found, and put the first URL found.
thread_handle_line(p, line) ==
  IF ~startswith_DEBUG(line) /\ matched_url[p] = None /\ re_search(line) # None
  THEN /\ matched_url' = [matched_url EXCEPT ![p] = re_search(line)]
       /\ queue_put(p, re_search(line))
  ELSE UNCHANGED <<matched_url, url_queue, put_log>>

\* Lines 391-401: readline() returns the next line of the pipe, blocks while
\* the pipe is empty and open, and returns the empty string at end of file.
thread_readline(p) ==
  /\ wpc[p] = "L391"
  /\ IF nread[p] < Len(printed[p])
     THEN /\ nread' = [nread EXCEPT ![p] = @ + 1]
          /\ thread_handle_line(p, printed[p][nread[p] + 1])
     ELSE /\ ~poll_is_None(p)
          /\ UNCHANGED nread
          /\ thread_handle_line(p, EOFLine)
  /\ wpc' = [wpc EXCEPT ![p] = "L390"]
  /\ UNCHANGED <<nspawned, pstate, printed, taskkills, killed_at_exit,
                 all_jupyter_processes, launchvars, killed_event, killed_at_403,
                 tdvars, kernelvars>>

\* thread_finish with line 403 testing killed_event.is_set() without the "not".
thread_finish_not_dropped(p) ==
  /\ wpc[p] = "L403"
  /\ killed_at_403' = [killed_at_403 EXCEPT ![p] = killed_event[p]]
  /\ IF matched_url[p] = None /\ killed_event[p]
     THEN queue_put(p, None)
     ELSE UNCHANGED <<url_queue, put_log>>
  /\ wpc' = [wpc EXCEPT ![p] = "done"]
  /\ UNCHANGED <<procvars, all_jupyter_processes, launchvars,
                 killed_event, matched_url, tdvars, kernelvars>>

\* thread_finish with line 403 testing only matched_url.
thread_finish_flag_ignored(p) ==
  /\ wpc[p] = "L403"
  /\ killed_at_403' = [killed_at_403 EXCEPT ![p] = killed_event[p]]
  /\ IF matched_url[p] = None
     THEN queue_put(p, None)
     ELSE UNCHANGED <<url_queue, put_log>>
  /\ wpc' = [wpc EXCEPT ![p] = "done"]
  /\ UNCHANGED <<procvars, all_jupyter_processes, launchvars,
                 killed_event, matched_url, tdvars, kernelvars>>

\* Lines 403-405: after the loop, the sentinel unless a URL was matched or the
\* launcher has set the kill flag.
thread_finish(p) ==
  /\ wpc[p] = "L403"
  /\ killed_at_403' = [killed_at_403 EXCEPT ![p] = killed_event[p]]
  /\ IF matched_url[p] = None /\ ~killed_event[p]
     THEN queue_put(p, None)
     ELSE UNCHANGED <<url_queue, put_log>>
  /\ wpc' = [wpc EXCEPT ![p] = "done"]
  /\ UNCHANGED <<procvars, all_jupyter_processes, launchvars,
                 killed_event, matched_url, tdvars, kernelvars>>

\* -------------------------------------------------- _kill_jupyter_processes
\* The atexit hook is entered: the host thread has no launch in progress.
teardown_begin ==
  /\ tpc = "off"
  /\ lpc = "idle"
  /\ tpc' = "loop"
  /\ ti' = 1
  /\ at_teardown' = Registered
  /\ UNCHANGED <<procvars, all_jupyter_processes, launchvars, watchvars, kernelvars>>

\* Lines 457-458: one turn of the for loop.
teardown_kill ==
  /\ tpc = "loop"
  /\ ti <= Len(all_jupyter_processes)
  /\ \E ok \in BOOLEAN : kill_process(all_jupyter_processes[ti], ok)
  /\ ti' = ti + 1
  /\ UNCHANGED <<nspawned, printed, nread, all_jupyter_processes, launchvars,
                 watchvars, tpc, at_teardown, kernelvars>>

\* teardown_prune without line 459: the list is left as it is.
teardown_prune_keeps_all ==
  /\ tpc = "loop"
  /\ ti > Len(all_jupyter_processes)
  /\ tpc' = "done"
  /\ UNCHANGED <<procvars, all_jupyter_processes, launchvars, watchvars, ti,
                 at_teardown, kernelvars>>

\* Line 459: the list keeps the entries whose poll() is None.
teardown_prune ==
  /\ tpc = "loop"
  /\ ti > Len(all_jupyter_processes)
  /\ all_jupyter_processes' = SelectSeq(all_jupyter_processes, poll_is_None)
  /\ tpc' = "done"
  /\ UNCHANGED <<procvars, launchvars, watchvars, ti, at_teardown, kernelvars>>

\* ------------------------------------------------------------ start_kernel
launchstate == <<procvars, all_jupyter_processes, launchvars, watchvars, tdvars>>

\* Lines 142-173, the patched IPKernelApp.start that embed_kernel calls: the
\* kernel is started, the running flag set and the first poll scheduled.
IPKernelApp_start ==
  /\ ipython_kernel_running' = TRUE
  /\ pending' = pending + 1

\* Lines 134-135: a running session is returned as it is.
start_kernel_running ==
  /\ last_ret' = ipython_app
  /\ starts_since_exit' = starts_since_exit + 1
  /\ UNCHANGED <<ipython_app, ipython_kernel_running, app_initialized, exit_now,
                 pending, sys_stdout, ipy_stdout, n_initialize, n_embed,
                 connection_dir>>

\* start_kernel_init without line 197: the app is not kept in sys._ipython_app.
start_kernel_init_app_not_kept ==
  /\ app_initialized' = TRUE
  /\ n_initialize' = IF app_initialized THEN n_initialize ELSE n_initialize + 1
  /\ connection_dir' = IF app_initialized THEN connection_dir ELSE get_connection_dir
  /\ n_embed' = n_embed + 1
  /\ IPKernelApp_start
  /\ ipy_stdout' = IF app_initialized THEN sys_stdout ELSE KernelStreams
  /\ sys_stdout' = sys_stdout
  /\ last_ret' = IPY
  /\ starts_since_exit' = starts_since_exit + 1
  /\ UNCHANGED <<exit_now, ipython_app>>

\* Lines 137-220: the app is created and initialized unless it exists,
\* embed_kernel starts it, the app is kept in sys._ipython_app, and the
\* streams that were installed on entry are put back.
start_kernel_init ==
  /\ app_initialized' = TRUE
  /\ n_initialize' = IF app_initialized THEN n_initialize ELSE n_initialize + 1
  /\ connection_dir' = IF app_initialized THEN connection_dir ELSE get_connection_dir
  /\ n_embed' = n_embed + 1
  /\ IPKernelApp_start
  /\ ipython_app' = IPY
  /\ ipy_stdout' = IF app_initialized THEN sys_stdout ELSE KernelStreams
  /\ sys_stdout' = sys_stdout
  /\ last_ret' = IPY
  /\ starts_since_exit' = starts_since_exit + 1
  /\ UNCHANGED exit_now

\* start_kernel()
start_kernel ==
  /\ n_start < MaxStarts
  /\ n_start' = n_start + 1
  /\ IF ipython_app # NoApp /\ ipython_kernel_running
     THEN start_kernel_running
     ELSE start_kernel_init
  /\ UNCHANGED <<n_poll, n_err, last_poll, body_stdout, launchstate,
                 cfg_runtime_dir, excel_path, pyxll_dir>>

\* ------------------------------------------------------------- poll_ioloop
\* Line 170: schedule_call(poll_ioloop, delay=0.1), by the callback that the
\* scheduler has just taken off its list.
poll_reschedule == pending' = (pending - 1) + 1

\* poll_except with schedule_call inside the try block: a body that raises
\* skips it.
poll_except_not_rescheduled ==
  /\ n_err' = n_err + 1
  /\ last_poll' = "swallowed"
  /\ pending' = pending - 1
  /\ UNCHANGED <<ipython_kernel_running, starts_since_exit>>

\* Lines 167-170: the bare except logs whatever the body raised, and the
\* callback goes on to schedule itself.
poll_except ==
  /\ n_err' = n_err + 1
  /\ last_poll' = "swallowed"
  /\ poll_reschedule
  /\ UNCHANGED <<ipython_kernel_running, starts_since_exit>>

\* poll_exit without the return of line 162: the stopped kernel's callback
\* goes on to line 170 and schedules itself.
poll_exit_rescheduled(raises) ==
  /\ UNCHANGED exit_now
  /\ IF raises
     THEN poll_except
     ELSE /\ ipython_kernel_running' = FALSE
          /\ starts_since_exit' = 0
          /\ poll_reschedule
          /\ last_poll' = "stopped"
          /\ UNCHANGED n_err

\* Lines 158-162: the kernel has been closed: the event loop is run to its
\* stop event, the running flag cleared, and the callback returns without
\* scheduling itself.
poll_exit(raises) ==
  /\ UNCHANGED exit_now
  /\ IF raises
     THEN poll_except
     ELSE /\ ipython_kernel_running' = FALSE
          /\ starts_since_exit' = 0
          /\ pending' = pending - 1
          /\ last_poll' = "stopped"
          /\ UNCHANGED n_err

\* Lines 165-170: one tick of the event loop, in which the kernel may handle
\* a shutdown request (shutdown), and which may raise.
poll_tick(raises, shutdown) ==
  /\ exit_now' = shutdown
  /\ IF raises
     THEN poll_except
     ELSE /\ poll_reschedule
          /\ last_poll' = "ok"
          /\ UNCHANGED <<n_err, ipython_kernel_running, starts_since_exit>>

\* PushStdout.__enter__ (lines 121-125): the streams found are kept and the
\* given ones installed.
PushStdout_enter(stdout) == [orig_stdout |-> sys_stdout, installed |-> stdout]

\* PushStdout.__exit__ without line 128: the given streams stay installed.
PushStdout_exit_not_restored(cm) == cm.installed

\* PushStdout.__exit__ (lines 127-129), which the with statement runs on
\* every way out of the body: what is installed afterwards.
PushStdout_exit(cm) == cm.orig_stdout

\* The host scheduler runs one pending poll_ioloop callback, its body inside
\* PushStdout(ipy_stdout, ipy_stderr).
poll_ioloop ==
  /\ pending > 0
  /\ n_poll < MaxPolls
  /\ n_poll' = n_poll + 1
  /\ \E raises \in BOOLEAN, shutdown \in BOOLEAN :
       IF exit_now THEN poll_exit(raises) ELSE poll_tick(raises, shutdown)
  /\ LET cm == PushStdout_enter(ipy_stdout)
     IN /\ body_stdout' = cm.installed
        /\ sys_stdout' = PushStdout_exit(cm)
  /\ UNCHANGED <<ipython_app, app_initialized, ipy_stdout, n_initialize, n_embed,
                 n_start, last_ret, launchstate,
                 connection_dir, cfg_runtime_dir, excel_path, pyxll_dir>>

Next ==
  \/ Popen
  \/ launch_register
  \/ launch_get
  \/ launch_check_alive
  \/ launch_set_killed
  \/ launch_kill
  \/ launch_raise
  \/ teardown_begin
  \/ teardown_kill
  \/ teardown_prune
  \/ \E p \in Procs : ChildPrint(p)
  \/ \E p \in Procs : ChildExit(p)
  \/ \E p \in Procs : thread_poll(p)
  \/ \E p \in Procs : thread_readline(p)
  \/ \E p \in Procs : thread_finish(p)

Spec == Init /\ [][Next]_vars

\* The thread that called launch_jupyter keeps running: Popen has returned,
\* and the wait on the queue (line 415), taskkill (line 446) and the join
\* (line 428) each come back after a bounded time.
launch_step ==
  \/ launch_register
  \/ launch_get
  \/ launch_check_alive
  \/ launch_set_killed
  \/ launch_kill
  \/ launch_raise

\* Popen for the first MaxLiveLaunches calls.
LivePopen == Popen /\ nspawned < MaxLiveLaunches

\* The steps of Next, with no more than MaxLiveLaunches calls made.
LiveNext ==
  \/ LivePopen
  \/ launch_step
  \/ teardown_begin
  \/ teardown_kill
  \/ teardown_prune
  \/ \E p \in Procs : ChildPrint(p)
  \/ \E p \in Procs : ChildExit(p)
  \/ \E p \in Procs : thread_poll(p)
  \/ \E p \in Procs : thread_readline(p)
  \/ \E p \in Procs : thread_finish(p)

\* One call with the calling thread scheduled; nothing is assumed of the
\* watcher thread, of the child or of the exit of the host.
LiveSpec == Init /\ [][LiveNext]_vars /\ WF_vars(launch_step)

KernelNext ==
  \/ start_kernel
  \/ poll_ioloop

KernelSpec == KernelInit /\ [][KernelNext]_vars

\* ================================================================== claims

\* ------------------------------------------------- the child's output
\* A line the watcher can take a URL from: not a DEBUG line, and the pattern
\* is found in it.
Matching(line) == ~startswith_DEBUG(line) /\ re_search(line) # None

\* The places of the matching lines in what child p has printed.
MatchIdx(p) == {i \in 1..Len(printed[p]) : Matching(printed[p][i])}

NoMatchPrinted(p) == MatchIdx(p) = {}

\* The call that spawned p has ended.
Ended(p) == result[p] # "none"

\* C1: a child that passes the start check, prints one line, a URL, and then
\* exits by itself makes launch_jupyter return that URL with the child in the
\* Process Directory, provided the wait did not time out. (A child that has
\* already exited at the start check is the process-start error of line 380.)
C1_EchoChildReturnsUrl ==
  \A p \in Procs :
    (/\ Ended(p)
     /\ result[p] # "start_error"
     /\ ~timed_out[p]
     /\ pstate[p] = "exited"
     /\ Len(printed[p]) = 1
     /\ Matching(printed[p][1]))
    => /\ result[p] = "returned"
       /\ ret_url[p] = printed[p][1]
       /\ (tpc = "off" => p \in Registered)

\* C2, as claimed: once the call whose wait timed out on a child that printed
\* no URL has ended, the child has been killed, it is out of the Process
\* Directory, and the call has raised.
C2_TimeoutKillsAndRemoves ==
  \A p \in Procs :
    (timed_out[p] /\ NoMatchPrinted(p) /\ Ended(p))
    => /\ result[p] = "timeout_error"
       /\ pstate[p] = "killed"
       /\ p \notin Registered

\* C2, amended: the call whose wait timed out on a child that printed no URL
\* ends by raising. If the child was alive at the check of line 421, the kill
\* flag has been set, the child is out of the Process Directory, and taskkill
\* has been run on it once unless it exited by itself first. If it had exited
\* by then, it is not killed, the flag stays unset, and it stays in the
\* directory until the teardown prunes it.
C2_TimeoutCleanup ==
  \A p \in Procs :
    (timed_out[p] /\ NoMatchPrinted(p) /\ Ended(p))
    => /\ result[p] = "timeout_error"
       /\ alive_at_421[p]
            => /\ killed_event[p]
               /\ p \notin Registered
               /\ \/ taskkills[p] = 1
                  \/ pstate[p] = "exited" /\ taskkills[p] = 0
       /\ ~alive_at_421[p]
            => /\ ~killed_event[p]
               /\ taskkills[p] = 0
               /\ pstate[p] = "exited"
               /\ (tpc # "done" => p \in Registered)

\* A timed-out launch of a silent child, raised after the kill and the removal.
C2_Witness ==
  \E p \in Procs :
    /\ timed_out[p]
    /\ printed[p] = <<>>
    /\ result[p] = "timeout_error"
    /\ pstate[p] = "killed"
    /\ taskkills[p] = 1
    /\ p \notin Registered

\* C3, as claimed: at the step in which launch_jupyter returns, the URL is the
\* one the watcher put, the child is in the Process Directory, and the child
\* is running.
C3_ReturnRegisteredRunning ==
  [][\A p \in Procs :
       (result[p] = "none" /\ result'[p] = "returned")
       => /\ Len(put_log[p]) >= 1
          /\ ret_url'[p] = put_log[p][1]
          /\ \E i \in 1..Len(all_jupyter_processes') : all_jupyter_processes'[i] = p
          /\ pstate'[p] = "running"]_vars

\* C3, amended: at the step in which launch_jupyter returns, the URL is the
\* one the watcher put and the child is in the Process Directory; the child
\* may have exited already.
C3_ReturnRegistered ==
  [][\A p \in Procs :
       (result[p] = "none" /\ result'[p] = "returned")
       => /\ Len(put_log[p]) >= 1
          /\ ret_url'[p] = put_log[p][1]
          /\ \E i \in 1..Len(all_jupyter_processes') : all_jupyter_processes'[i] = p]_vars

\* The latest launch has returned URL2, the one URL its watcher put, with its
\* child registered.
C3_Witness ==
  \E p \in Procs :
    /\ lpc = "idle"
    /\ nspawned = p
    /\ result[p] = "returned"
    /\ ret_url[p] = URL2
    /\ put_log[p] = <<URL2>>
    /\ p \in Registered

\* C4: a start_kernel call made after an earlier call has returned, with no
\* kernel stop in between, returns the same session as that call and does no
\* initialization work: no initialize, no embed_kernel, no further poll
\* callback, and the running flag as it was.
C4_StartIdempotent ==
  [][(n_start' = n_start + 1 /\ starts_since_exit >= 1)
       => /\ last_ret' = last_ret
          /\ last_ret' = IPY
          /\ n_initialize' = n_initialize
          /\ n_embed' = n_embed
          /\ pending' = pending
          /\ ipython_kernel_running' = ipython_kernel_running]_vars

\* Three calls in a row with no kernel stop, and the work done once.
C4_Witness ==
  /\ starts_since_exit = 3
  /\ n_embed = 1
  /\ n_initialize = 1
  /\ last_ret = IPY

\* C5: once the watcher has finished on a child that printed exactly one
\* matching line, the queue has been given that URL and nothing else.
C5_OneMatchOneUrl ==
  \A p \in Procs :
    (wpc[p] = "done" /\ Cardinality(MatchIdx(p)) = 1)
    => \E i \in MatchIdx(p) : put_log[p] = <<re_search(printed[p][i])>>

\* C6, as claimed: once the watcher has finished on a child that printed no
\* matching line and ended with the kill flag unset, the queue has been given
\* the sentinel and nothing else.
C6_SentinelIfUnsetAtExit ==
  \A p \in Procs :
    (wpc[p] = "done" /\ NoMatchPrinted(p) /\ ~killed_at_exit[p])
    => put_log[p] = <<None>>

\* C6, amended: once the watcher has finished on a child that printed no
\* matching line, and the kill flag was unset when the watcher tested it at
\* line 403, the queue has been given the sentinel and nothing else.
C6_SentinelIfUnsetAtCheck ==
  \A p \in Procs :
    (wpc[p] = "done" /\ NoMatchPrinted(p) /\ ~killed_at_403[p])
    => put_log[p] = <<None>>

\* A watcher that has read two non-matching lines and put the sentinel.
C6_Witness ==
  \E p \in Procs :
    /\ wpc[p] = "done"
    /\ Len(printed[p]) = 2
    /\ nread[p] = 2
    /\ NoMatchPrinted(p)
    /\ ~killed_at_403[p]
    /\ put_log[p] = <<None>>

\* C7: a child that ended with the kill flag already set never has the
\* sentinel put on its queue.
C7_NoSentinelAfterKill ==
  \A p \in Procs :
    killed_at_exit[p] => \A i \in 1..Len(put_log[p]) : put_log[p][i] # None

\* A child killed by the launcher without a match: its watcher has finished
\* and has put nothing.
C7_Witness ==
  \E p \in Procs :
    /\ killed_at_exit[p]
    /\ pstate[p] = "killed"
    /\ wpc[p] = "done"
    /\ matched_url[p] = None
    /\ put_log[p] = <<>>

\* C8, as claimed: never two items on a launch's queue, and exactly one once
\* its watcher has finished.
C8_ExactlyOneItem ==
  \A p \in Procs :
    /\ Len(put_log[p]) <= 1
    /\ wpc[p] = "done" => Len(put_log[p]) = 1

\* C8, amended: never two items on a launch's queue; once its watcher has
\* finished, exactly one, unless no URL was matched and the kill flag was set
\* when line 403 tested it, and then none.
C8_AtMostOneItem ==
  \A p \in Procs :
    /\ Len(put_log[p]) <= 1
    /\ wpc[p] = "done"
         => Len(put_log[p]) = (IF matched_url[p] = None /\ killed_at_403[p] THEN 0 ELSE 1)

\* A watcher that has seen two matching lines and has put the first only.
C8_Witness ==
  \E p \in Procs :
    /\ wpc[p] = "done"
    /\ nread[p] = 2
    /\ Cardinality(MatchIdx(p)) = 2
    /\ put_log[p] = <<printed[p][1]>>

\* C9: during the teardown taskkill is only run on a child that is running
\* and has had no taskkill before; and when the hook has finished, every child
\* that was registered has had exactly one, unless it exited by itself.
C9_TeardownTerminatesOnce ==
  /\ [](tpc = "done"
          => \A p \in at_teardown : pstate[p] # "exited" => taskkills[p] = 1)
  /\ [][tpc = "loop"
          => \A p \in Procs :
               taskkills'[p] # taskkills[p]
               => /\ p \in at_teardown
                  /\ pstate[p] = "running"
                  /\ taskkills[p] = 0
                  /\ taskkills'[p] = 1]_vars

\* A finished teardown of two registered children: one was running and got
\* its one taskkill, the other had exited and got none.
C9_Witness ==
  /\ tpc = "done"
  /\ \E p, q \in at_teardown :
       /\ pstate[p] = "killed"
       /\ taskkills[p] = 1
       /\ pstate[q] = "exited"
       /\ taskkills[q] = 0

\* C10: a poll step whose body raises while the kernel is not exiting ends
\* with the exception swallowed and with exactly one poll callback pending,
\* however many poll steps have failed before.
C10_PollErrorsSwallowed ==
  [][(n_err' = n_err + 1 /\ ~exit_now)
       => /\ last_poll' = "swallowed"
          /\ pending' = 1]_vars

\* Three failing poll steps of a kernel that is not exiting, one callback pending.
C10_Witness ==
  /\ n_err = 3
  /\ ~exit_now
  /\ last_poll = "swallowed"
  /\ pending = 1

\* C12: a poll step that finds the kernel exiting leaves the running flag
\* false and no poll callback pending, whether or not running the event loop
\* raised in that step.
C12_ExitStopsPolling ==
  [][(n_poll' = n_poll + 1 /\ exit_now)
       => /\ ~ipython_kernel_running'
          /\ pending' = 0]_vars

\* C19: at most one poll callback is pending in the host scheduler, and
\* exactly one whenever the running flag is true.
C19_OnePollPending ==
  /\ pending <= 1
  /\ ipython_kernel_running => pending = 1

\* A kernel started again after it had stopped, with a poll step that raised
\* on the way: running, and one callback pending.
C19_Witness ==
  /\ n_embed = 2
  /\ n_err >= 1
  /\ ipython_kernel_running
  /\ pending = 1

\* C11: once start_kernel has resolved the connection directory, the
\* directory it was given is an absolute path, whatever the runtime_dir
\* option and the installation of Excel are.
C11_ResolvedAbsolute ==
  n_initialize >= 1 => connection_dir.abs

\* C14: every poll step, however it ends, leaves sys.stdout / sys.stderr the
\* streams they were before it; what it installed while its body ran are the
\* streams kept by start_kernel, and the kernel's streams are not the
\* installed ones once the step is over.
C14_StreamsRestored ==
  [][(n_poll' = n_poll + 1)
       => /\ sys_stdout' = sys_stdout
          /\ sys_stdout' # KernelStreams
          /\ body_stdout' = ipy_stdout]_vars

\* A poll step that swallowed an exception ran with the kernel's streams and
\* left the host's installed.
C14_Witness ==
  /\ last_poll = "swallowed"
  /\ body_stdout = KernelStreams
  /\ sys_stdout = HostStreams

\* C15: with Excel running as a UWP app, the connection directory resolved
\* by start_kernel has no AppData component, wherever pyxll is installed.
C15_NotInAppDataUnderUWP ==
  (n_initialize >= 1 /\ "WindowsApps" \in re_split(excel_path))
    => "AppData" \notin re_split(connection_dir)

\* C17: a call of launch_jupyter that has spawned a child comes back to its
\* caller, with a URL or with an error, whatever the watcher thread and the
\* child do.
C17_LaunchEnds ==
  (lpc # "idle") ~> (lpc = "idle")

\* A call has raised the timeout error while its watcher thread is still
\* blocked in readline on a child that is still running.
C17_Witness ==
  \E p \in Procs :
    /\ result[p] = "timeout_error"
    /\ wpc[p] = "L391"
    /\ pstate[p] = "running"
    /\ lpc = "idle"

\* The step that ends _kill_jupyter_processes.
TeardownEnds == tpc = "loop" /\ tpc' = "done"

\* C13: when the teardown hook has run, every entry left in the list has
\* exited: no entry still running remains.
C13_OnlyExitedRemain ==
  [][TeardownEnds => \A p \in Registered' : pstate'[p] # "running"]_vars

\* C13, as the code has it: when the teardown hook has run, the list holds
\* the entries that are still running (taskkill failed on them) and no entry
\* that has exited.
C13_OnlyRunningRemain ==
  [][TeardownEnds
       => Registered' = {p \in at_teardown : pstate'[p] = "running"}]_vars

\* Teardown is over: one entry is still running and still listed, another has
\* ended and is gone from the list.
C13_Witness ==
  /\ tpc = "done"
  /\ \E p, q \in at_teardown :
       /\ pstate[p] = "running"
       /\ taskkills[p] >= 1
       /\ p \in Registered
       /\ pstate[q] # "running"
       /\ q \notin Registered

\* The step of the start check (lines 379-380), for the child just spawned.
StartCheck == lpc = "L379" /\ lpc' # "L379"

\* C16: a child that has exited at the start check makes the call raise the
\* start error at once, with the list and the watcher threads as they were;
\* any other child is in the list when the launcher starts waiting on the
\* queue.
C16_StartCheck ==
  [][/\ StartCheck =>
          IF ~poll_is_None(cur)
          THEN /\ result'[cur] = "start_error"
               /\ lpc' = "idle"
               /\ all_jupyter_processes' = all_jupyter_processes
               /\ wpc' = wpc
          ELSE /\ lpc' = "L415"
               /\ wpc'[cur] = "L390"
     /\ lpc' = "L415" => nspawned' \in Registered']_vars

\* The second call failed at the start check; the child of the first call is
\* still the only one listed.
C16_Witness ==
  /\ nspawned = 2
  /\ result[2] = "start_error"
  /\ wpc[2] = "none"
  /\ Registered = {1}
  /\ lpc = "idle"

\* C18: until teardown has run, every child that was registered and is still
\* running is in the list.
C18_LiveChildrenListed ==
  tpc # "done" =>
    \A p \in Procs : (wpc[p] # "none" /\ pstate[p] = "running") => p \in Registered

\* The step that raises RuntimeError (line 433).
Raises == lpc = "L427" /\ lpc' = "idle"

\* C20: when launch_jupyter raises after having registered the child, the
\* child is not in the list.
C20_RaisedNotListed ==
  [][Raises => cur \notin Registered']_vars

\* C20, as the code has it: when launch_jupyter raises after having
\* registered the child, the child is out of the list exactly if it was
\* still running at line 421.
C20_RaisedListedIffExited ==
  [][Raises => (cur \in Registered' <=> ~alive_at_421[cur])]_vars

\* Two calls have raised: the child of one was running at line 421 and is
\* out of the list, the child of the other had exited and is still listed.
C20_Witness ==
  /\ tpc = "off"
  /\ lpc = "idle"
  /\ \E p, q \in Procs :
       /\ result[p] = "timeout_error"
       /\ alive_at_421[p]
       /\ p \notin Registered
       /\ result[q] = "timeout_error"
       /\ ~alive_at_421[q]
       /\ pstate[q] = "exited"
       /\ q \in Registered

====
